---- MODULE Spec2Model ----
(***************************************************************************)
(* Role (src/src/permissions/role.ts): permission composition, wildcard    *)
(* matching and mutation of a role's permission arrays.                    *)
(*                                                                         *)
(* A permission string is a sequence of one-character strings, so that     *)
(* split(':'), join(':') and the RegExp built from an entry are computed   *)
(* character by character.  JavaScript arrays are objects: the model keeps *)
(* a heap of arrays and every field holding an array holds its address.    *)
(***************************************************************************)
EXTENDS Integers, Sequences, FiniteSets, TLC

\* ------------------------------------------------------------------ bounds
MaxHasLen == 3      \* longest permission array queried under SpecHas
MaxArgLen == 2      \* longest array passed to the constructor or to set
MaxParents == 2     \* longest inherits list
MaxCalls == 1       \* number of set, add and remove calls explored

\* ------------------------------------------------- permission strings used
chWild  == <<"c", "h", ":", "*">>
usWild  == <<"u", "s", ":", "*">>
chQuote == <<"c", "h", ":", "q">>
usCh    == <<"u", "s", ":", "c", "h">>
upQuote == <<"C", "H", ":", "q">>
chMid   == <<"c", "h", ":", "*", ":", "d">>
starQ   == <<"*", ":", "q">>

\* Strings queried and held under SpecHas.
PermStrings == {chWild, usWild, chQuote, usCh, upQuote, chMid, starQ}

\* Strings handed to the constructor, set, add and remove under Spec.
RolePerms == {chWild, chQuote}

Roles == 1..3

\* The roles constructed under Spec.
Pair == 1..2

RECURSIVE SeqsUpTo(_, _)
SeqsUpTo(S, n) ==
    IF n = 0 THEN {<<>>}
    ELSE LET shorter == SeqsUpTo(S, n - 1)
         IN  shorter \cup {Append(s, x) : s \in shorter, x \in S}

Range(arr) == {arr[i] : i \in 1..Len(arr)}

\* ------------------------------------------------------ library functions
\* Array.prototype.includes
Includes(arr, x) == \E i \in 1..Len(arr) : arr[i] = x

\* String.prototype.split(':')
RECURSIVE Split(_)
Split(s) ==
    IF \E i \in 1..Len(s) : s[i] = ":"
    THEN LET i == CHOOSE k \in 1..Len(s) :
                      s[k] = ":" /\ \A j \in 1..(k - 1) : s[j] # ":"
         IN  <<SubSeq(s, 1, i - 1)>> \o Split(SubSeq(s, i + 1, Len(s)))
    ELSE <<s>>

\* Array.prototype.join(':')
RECURSIVE Join(_)
Join(segs) ==
    IF Len(segs) = 0 THEN <<>>
    ELSE IF Len(segs) = 1 THEN segs[1]
    ELSE segs[1] \o <<":">> \o Join(Tail(segs))

\* lodash dropRight(array, n)
DropRight(arr, n) == IF Len(arr) <= n THEN <<>> ELSE SubSeq(arr, 1, Len(arr) - n)

\* Case folding of the RegExp 'i' flag over the letters in use.
Lower(c) == IF c = "C" THEN "c" ELSE IF c = "H" THEN "h" ELSE c

\* new RegExp(`(${src}.*)`, 'i') is a SyntaxError ("nothing to repeat") when
\* a '*' of src has nothing before it: '*' is the only RegExp metacharacter
\* among the characters in use.
RegExpSyntaxError(src) ==
    /\ Len(src) > 0
    /\ \/ src[1] = "*"
       \/ \E i \in 1..(Len(src) - 1) : src[i] = "*" /\ src[i + 1] = "*"

\* Does the pattern src[j..] followed by .* match s from position i on?
\* A character followed by '*' is repeated zero or more times.
RECURSIVE MatchAt(_, _, _, _)
MatchAt(src, j, s, i) ==
    IF j > Len(src) THEN TRUE
    ELSE IF j < Len(src) /\ src[j + 1] = "*"
         THEN \/ MatchAt(src, j + 2, s, i)
              \/ /\ i <= Len(s)
                 /\ Lower(s[i]) = Lower(src[j])
                 /\ MatchAt(src, j, s, i + 1)
         ELSE /\ i <= Len(s)
              /\ Lower(s[i]) = Lower(src[j])
              /\ MatchAt(src, j + 1, s, i + 1)

\* new RegExp(`(${src}.*)`, 'i').test(s): the pattern is not anchored, the
\* match may start at any position of s.
RegExpTest(src, s) ==
    IF RegExpSyntaxError(src) THEN "throws"
    ELSE IF \E i \in 1..(Len(s) + 1) : MatchAt(src, 1, s, i) THEN "true"
    ELSE "false"

\* The for loop of Role.has from index i on.
RECURSIVE HasLoopAnyWildcard(_, _, _)
HasLoopAnyWildcard(permissions, permission, i) ==
    IF i > Len(permissions) THEN "false"
    ELSE LET perm == Split(permissions[i])
         IN  IF /\ Includes(perm, <<"*">>)
                /\ RegExpTest(Join(DropRight(perm, 1)), permission) # "false"
             THEN RegExpTest(Join(DropRight(perm, 1)), permission)
             ELSE HasLoopAnyWildcard(permissions, permission, i + 1)

RECURSIVE HasLoop(_, _, _)
HasLoop(permissions, permission, i) ==
    IF i > Len(permissions) THEN "false"
    ELSE LET perm == Split(permissions[i])
         IN  IF Includes(perm, <<"*">>)
             THEN RegExpTest(Join(DropRight(perm, 1)), permission)
             ELSE HasLoop(permissions, permission, i + 1)

\* Role.has on the array `permissions`: "true", "false" or "throws".
Has(permissions, permission) ==
    IF Includes(permissions, permission) THEN "true"
    ELSE HasLoop(permissions, permission, 1)

\* Role.hasInRaw on the array `permissions`.
RECURSIVE HasInRawLoop(_, _, _)
HasInRawLoop(permissions, permission, i) ==
    IF i > Len(permissions) THEN FALSE
    ELSE IF permissions[i] = permission THEN TRUE
    ELSE HasInRawLoop(permissions, permission, i + 1)

HasInRaw(permissions, permission) == HasInRawLoop(permissions, permission, 1)

\* lodash uniq: first occurrences, in order.
RECURSIVE Uniq(_)
Uniq(arr) ==
    IF Len(arr) = 0 THEN <<>>
    ELSE LET init == Uniq(SubSeq(arr, 1, Len(arr) - 1))
             x    == arr[Len(arr)]
         IN  IF Includes(init, x) THEN init ELSE Append(init, x)

\* lodash union(a, b): a new array.
Union(a, b) == Uniq(a \o b)

\* Array.prototype.filter(perm => perm !== permission): a new array.
RECURSIVE FilterFirstOnly(_, _)
FilterFirstOnly(arr, permission) ==
    IF Len(arr) = 0 THEN <<>>
    ELSE IF Head(arr) = permission THEN Tail(arr)
    ELSE <<Head(arr)>> \o FilterFirstOnly(Tail(arr), permission)

FilterKeepOnly(arr, permission) == SelectSeq(arr, LAMBDA perm : perm = permission)

Filter(arr, permission) == SelectSeq(arr, LAMBDA perm : perm # permission)

\* inherits.forEach(inherit => this.permissions = union(this.permissions,
\* inherit.permissions)), given the arrays the parents hold, from parent i on.
ComposeNoAccumulate(own, parentArrays, i) ==
    IF Len(parentArrays) = 0 THEN own
    ELSE Union(own, parentArrays[Len(parentArrays)])

RECURSIVE Compose(_, _, _)
Compose(acc, parentArrays, i) ==
    IF i > Len(parentArrays) THEN acc
    ELSE Compose(Union(acc, parentArrays[i]), parentArrays, i + 1)

\* --------------------------------------------------------------- the state
VARIABLES
    heap,            \* the arrays: address -> array of permission strings
    made,            \* the roles constructed so far
    permissions,     \* role -> address of this.permissions
    rawPermissions,  \* role -> address of this.rawPermissions
    inherits,        \* role -> this.inherits
    declared,        \* history: role -> the array contents passed to new Role
    overridden,      \* history: role -> set has been called on it
    removedArgs,     \* history: role -> the strings passed to remove
    calls,           \* history: the number of set, add and remove calls
    last,            \* history: the last call, <<operation, role, argument>>
    ret              \* the value the last has / hasInRaw call returned

vars == <<heap, made, permissions, rawPermissions, inherits, declared,
          overridden, removedArgs, calls, last, ret>>

\* A role's arrays live at two addresses: "arg", the array the caller passed
\* to the constructor, and "own", the array most recently allocated for
\* this.permissions (by union, by filter, or by the caller of set).  The array
\* "own" replaces is referenced by nothing else and its cell is reused.
Addr == Roles \X {"arg", "own"}

Eff(r) == heap[permissions[r]]
Raw(r) == heap[rawPermissions[r]]

NoCall == <<"none", 0, <<>>>>

\* The state after `new Role({permissions: list})` for role 1.
InitHas ==
    /\ \E list \in SeqsUpTo(PermStrings, MaxHasLen) :
          /\ heap = [a \in Addr |-> IF a = <<1, "arg">> THEN list ELSE <<>>]
          /\ declared = [r \in Roles |-> IF r = 1 THEN list ELSE <<>>]
    /\ made = {1}
    /\ permissions = [r \in Roles |-> <<r, "arg">>]
    /\ rawPermissions = [r \in Roles |-> <<r, "arg">>]
    /\ inherits = [r \in Roles |-> <<>>]
    /\ overridden = [r \in Roles |-> FALSE]
    /\ removedArgs = [r \in Roles |-> {}]
    /\ calls = 0
    /\ last = <<"construct", 1, declared[1]>>
    /\ ret = "none"

\* No role constructed yet.
Init ==
    /\ heap = [a \in Addr |-> <<>>]
    /\ made = {}
    /\ permissions = [r \in Roles |-> <<r, "arg">>]
    /\ rawPermissions = [r \in Roles |-> <<r, "arg">>]
    /\ inherits = [r \in Roles |-> <<>>]
    /\ declared = [r \in Roles |-> <<>>]
    /\ overridden = [r \in Roles |-> FALSE]
    /\ removedArgs = [r \in Roles |-> {}]
    /\ calls = 0
    /\ last = NoCall
    /\ ret = "none"

\* role.has(permission)
HasCall(r, permission) ==
    /\ r \in made
    /\ ret' = Has(Eff(r), permission)
    /\ last' = <<"has", r, permission>>
    /\ UNCHANGED <<heap, made, permissions, rawPermissions, inherits,
                   declared, overridden, removedArgs, calls>>

\* role.hasInRaw(permission)
HasInRawCall(r, permission) ==
    /\ r \in made
    /\ ret' = IF HasInRaw(Raw(r), permission) THEN "true" ELSE "false"
    /\ last' = <<"hasInRaw", r, permission>>
    /\ UNCHANGED <<heap, made, permissions, rawPermissions, inherits,
                   declared, overridden, removedArgs, calls>>

\* new Role({permissions: list, inherits: parents}), the parents being
\* distinct roles constructed before.  `list` is a fresh array of the caller.
ConstructShared(r, list, parents) ==
    /\ r \notin made
    /\ r = 1 \/ r - 1 \in made
    /\ \A i \in 1..Len(parents) : parents[i] \in made
    /\ \A i, j \in 1..Len(parents) : i # j => parents[i] # parents[j]
    /\ LET parentArrays == [i \in 1..Len(parents) |-> Eff(parents[i])]
           composed == Compose(list, parentArrays, 1)
       IN  heap' = [heap EXCEPT ![<<r, "arg">>] = list,
                                ![<<r, "own">>] = composed]
    /\ permissions' = [permissions EXCEPT ![r] =
                          IF Len(parents) = 0 THEN <<r, "arg">>
                          ELSE IF Eff(parents[Len(parents)]) = heap'[<<r, "own">>]
                               THEN permissions[parents[Len(parents)]]
                               ELSE <<r, "own">>]
    /\ rawPermissions' = [rawPermissions EXCEPT ![r] = <<r, "arg">>]
    /\ inherits' = [inherits EXCEPT ![r] = parents]
    /\ made' = made \cup {r}
    /\ declared' = [declared EXCEPT ![r] = list]
    /\ last' = <<"construct", r, list>>
    /\ ret' = "none"
    /\ UNCHANGED <<overridden, removedArgs, calls>>

Construct(r, list, parents) ==
    /\ r \notin made
    /\ r = 1 \/ r - 1 \in made
    /\ \A i \in 1..Len(parents) : parents[i] \in made
    /\ \A i, j \in 1..Len(parents) : i # j => parents[i] # parents[j]
    /\ LET parentArrays == [i \in 1..Len(parents) |-> Eff(parents[i])]
           composed == Compose(list, parentArrays, 1)
       IN  \* this.permissions = permissions; this.rawPermissions = permissions
           \* then one new array per parent, the last one kept
           heap' = [heap EXCEPT ![<<r, "arg">>] = list,
                                ![<<r, "own">>] =
                                    IF Len(parents) = 0 THEN @ ELSE composed]
    /\ permissions' = [permissions EXCEPT ![r] =
                          IF Len(parents) = 0 THEN <<r, "arg">> ELSE <<r, "own">>]
    /\ rawPermissions' = [rawPermissions EXCEPT ![r] = <<r, "arg">>]
    /\ inherits' = [inherits EXCEPT ![r] = parents]
    /\ made' = made \cup {r}
    /\ declared' = [declared EXCEPT ![r] = list]
    /\ last' = <<"construct", r, list>>
    /\ ret' = "none"
    /\ UNCHANGED <<overridden, removedArgs, calls>>

\* role.set(list): this.permissions becomes the caller's array.
Set(r, list) ==
    /\ r \in made
    /\ calls < MaxCalls
    /\ calls' = calls + 1
    /\ heap' = [heap EXCEPT ![<<r, "own">>] = list]
    /\ permissions' = [permissions EXCEPT ![r] = <<r, "own">>]
    /\ overridden' = [overridden EXCEPT ![r] = TRUE]
    /\ last' = <<"set", r, list>>
    /\ ret' = "none"
    /\ UNCHANGED <<made, rawPermissions, inherits, declared, removedArgs>>

\* role.add(permission): push onto the array this.permissions refers to.
AddAlways(r, permission) ==
    /\ r \in made
    /\ calls < MaxCalls
    /\ calls' = calls + 1
    /\ heap' = [heap EXCEPT ![permissions[r]] = Append(@, permission)]
    /\ last' = <<"add", r, permission>>
    /\ ret' = "none"
    /\ UNCHANGED <<made, permissions, rawPermissions, inherits, declared,
                   overridden, removedArgs>>

Add(r, permission) ==
    /\ r \in made
    /\ calls < MaxCalls
    /\ calls' = calls + 1
    /\ heap' = IF ~Includes(Eff(r), permission)
               THEN [heap EXCEPT ![permissions[r]] = Append(@, permission)]
               ELSE heap
    /\ last' = <<"add", r, permission>>
    /\ ret' = "none"
    /\ UNCHANGED <<made, permissions, rawPermissions, inherits, declared,
                   overridden, removedArgs>>

\* role.remove(permission): this.permissions becomes the filtered copy.
Remove(r, permission) ==
    /\ r \in made
    /\ calls < MaxCalls
    /\ calls' = calls + 1
    /\ heap' = [heap EXCEPT ![<<r, "own">>] = Filter(Eff(r), permission)]
    /\ permissions' = [permissions EXCEPT ![r] = <<r, "own">>]
    /\ removedArgs' = [removedArgs EXCEPT ![r] = @ \cup {permission}]
    /\ last' = <<"remove", r, permission>>
    /\ ret' = "none"
    /\ UNCHANGED <<made, rawPermissions, inherits, declared, overridden>>

\* A parent and a child under set, add and remove.
Next ==
    \/ \E r \in Pair \ made, list \in SeqsUpTo(RolePerms, MaxArgLen),
          parents \in SeqsUpTo(made, MaxParents) : Construct(r, list, parents)
    \/ \E r \in made, list \in SeqsUpTo(RolePerms, MaxArgLen) : Set(r, list)
    \/ \E r \in made, permission \in RolePerms : Add(r, permission)
    \/ \E r \in made, permission \in RolePerms : Remove(r, permission)

Spec == Init /\ [][Next]_vars

\* A hierarchy of three roles built one by one, with add calls in between.
NextBuild ==
    \/ \E r \in Roles \ made, list \in SeqsUpTo(RolePerms, MaxArgLen),
          parents \in SeqsUpTo(made, MaxParents) : Construct(r, list, parents)
    \/ \E r \in made, permission \in RolePerms : Add(r, permission)

SpecBuild == Init /\ [][NextBuild]_vars

NextHas ==
    \/ \E permission \in PermStrings : HasCall(1, permission)
    \/ \E permission \in PermStrings : HasInRawCall(1, permission)

SpecHas == InitHas /\ [][NextHas]_vars

\* ------------------------------------------------------------- properties
\* C1: when the queried permission is not literally in effectivePermissions,
\* has returns the result of the wildcard test of the first entry that has a
\* wildcard segment, whatever later entries would answer; in particular
\* ["us:*", "ch:*"] answers false to "ch:q".
FirstWildcardWins ==
    last[1] = "has" =>
        LET ps   == Eff(last[2])
            q    == last[3]
            wild == {i \in 1..Len(ps) : Includes(Split(ps[i]), <<"*">>)}
        IN  /\ (~Includes(ps, q) /\ wild # {}) =>
                   LET first == CHOOSE i \in wild : \A j \in wild : i <= j
                   IN  ret = RegExpTest(Join(DropRight(Split(ps[first]), 1)), q)
            /\ (ps = <<usWild, chWild>> /\ q = chQuote) => ret = "false"

FirstWildcardWinsWitness ==
    /\ last = <<"has", 1, chQuote>>
    /\ Eff(1) = <<usWild, chWild>>
    /\ ret = "false"

\* C2: a permission that is not literally present is granted only if it
\* starts (case-insensitively) with the prefix of an entry whose last segment
\* is '*'.  Stated over arrays whose '*' segments are all trailing ones.
WildcardIsPrefixTest ==
    last[1] = "has" =>
        LET ps == Eff(last[2])
            q  == last[3]
            segs(i) == Split(ps[i])
            prefix(i) == Join(DropRight(segs(i), 1))
            startsWith(s, pre) ==
                /\ Len(pre) <= Len(s)
                /\ \A k \in 1..Len(pre) : Lower(s[k]) = Lower(pre[k])
        IN  ( /\ ~Includes(ps, q)
              /\ \A i \in 1..Len(ps) :
                    Includes(segs(i), <<"*">>) =>
                        /\ segs(i)[Len(segs(i))] = <<"*">>
                        /\ ~Includes(prefix(i), "*")
              /\ ret = "true" )
            => \E i \in 1..Len(ps) :
                  /\ segs(i)[Len(segs(i))] = <<"*">>
                  /\ startsWith(q, prefix(i))

\* C10: without an entry whose last segment is '*', a permission that is not
\* literally present is not granted: an entry with '*' in another segment
\* grants nothing.
OnlyTrailingStarIsWildcard ==
    last[1] = "has" =>
        LET ps == Eff(last[2])
            q  == last[3]
        IN  ( /\ ~Includes(ps, q)
              /\ \A i \in 1..Len(ps) :
                    LET segs == Split(ps[i]) IN segs[Len(segs)] # <<"*">> )
            => ret # "true"

\* C3: rawPermissions holds what the constructor was given, in every state.
RawImmutable == \A r \in made : Raw(r) = declared[r]

\* C4: right after construction the effective array holds every raw entry
\* and every entry of each parent's effective array, and has() grants each
\* entry a parent holds.
InheritanceSuperset ==
    last[1] = "construct" =>
        LET r == last[2]
        IN  /\ \A x \in Range(Raw(r)) : Includes(Eff(r), x)
            /\ \A i \in 1..Len(inherits[r]) :
                  \A x \in Range(Eff(inherits[r][i])) :
                      /\ Includes(Eff(r), x)
                      /\ Has(Eff(r), x) = "true"

InheritanceSupersetWitness ==
    /\ last[1] = "construct"
    /\ last[2] = 3
    /\ inherits[3] = <<1, 2>>
    /\ \E x \in Range(Eff(1)) :
          ~Includes(declared[3], x) /\ ~Includes(Eff(2), x)
    /\ \E x \in Range(Eff(2)) :
          ~Includes(declared[3], x) /\ ~Includes(Eff(1), x)

\* C5: a set, add or remove call on a role leaves the effective array of
\* each of its parents and each of its children as it was.
NoLiveLinkage ==
    [][ last'[1] \in {"set", "add", "remove"} =>
          \A r \in made :
              ( /\ r # last'[2]
                /\ \/ Includes(inherits[r], last'[2])
                   \/ Includes(inherits[last'[2]], r) )
              => heap'[permissions'[r]] = heap[permissions[r]] ]_vars

NoLiveLinkageWitness ==
    /\ last[1] = "add"
    /\ last[2] = 1
    /\ 2 \in made
    /\ inherits[2] = <<1>>
    /\ Eff(2) = declared[1]
    /\ Includes(Eff(1), last[3])
    /\ ~Includes(Eff(2), last[3])

\* C6: hasInRaw answers true exactly for the strings passed at construction,
\* and right after construction a string that only a parent holds is refused
\* by hasInRaw and granted by has.
HasInRawIsDeclared ==
    /\ \A r \in made : \A p \in RolePerms :
          HasInRaw(Raw(r), p) <=> Includes(declared[r], p)
    /\ last[1] = "construct" =>
          \A i \in 1..Len(inherits[last[2]]) :
              \A x \in Range(Eff(inherits[last[2]][i])) :
                  ~Includes(declared[last[2]], x) =>
                      /\ ~HasInRaw(Raw(last[2]), x)
                      /\ Has(Eff(last[2]), x) = "true"

\* C7: has(p) right after remove(p) answers false.
RemoveThenHasFalse ==
    last[1] = "remove" => Has(Eff(last[2]), last[3]) = "false"

\* C7 amended: has(p) right after remove(p) answers false when no entry left
\* in the effective array has a '*' segment.
RemoveThenHasFalseNoWildcard ==
    last[1] = "remove" =>
        LET ps == Eff(last[2])
        IN  (\A i \in 1..Len(ps) : ~Includes(Split(ps[i]), <<"*">>))
            => Has(ps, last[3]) = "false"

RemoveThenHasFalseWitness ==
    /\ last[1] = "remove"
    /\ Includes(declared[last[2]], last[3])
    /\ removedArgs[last[2]] = {last[3]}
    /\ calls = 1
    /\ Len(Eff(last[2])) > 0
    /\ \A i \in 1..Len(Eff(last[2])) :
          ~Includes(Split(Eff(last[2])[i]), <<"*">>)

\* C8: no string occurs twice in an effective array.
NoDuplicates ==
    \A r \in made :
        \A i, j \in 1..Len(Eff(r)) : i # j => Eff(r)[i] # Eff(r)[j]

\* C8 amended: a construction with a parent, a construction or a set from a
\* list without repetition leave no string twice in the effective array, and
\* add and remove never put a string twice into an array that had none.
NoDuplicatesIntroduced ==
    [][ LET r == last'[2]
            NoDup(arr) == \A i, j \in 1..Len(arr) : i # j => arr[i] # arr[j]
        IN  ( \/ /\ last'[1] = "construct"
                 /\ Len(inherits'[r]) > 0 \/ NoDup(last'[3])
              \/ /\ last'[1] = "set"
                 /\ NoDup(last'[3])
              \/ /\ last'[1] \in {"add", "remove"}
                 /\ NoDup(heap[permissions[r]]) )
            => NoDup(heap'[permissions'[r]]) ]_vars

NoDuplicatesWitness ==
    /\ last[1] = "add"
    /\ calls = 1
    /\ Includes(declared[last[2]], last[3])
    /\ Len(Eff(last[2])) = 2
    /\ Eff(last[2])[1] # Eff(last[2])[2]

\* C9: while set has not been called, the effective array holds every entry
\* of rawPermissions.
RawContained ==
    \A r \in made :
        ~overridden[r] => \A x \in Range(Raw(r)) : Includes(Eff(r), x)

\* C9 amended: while set has not been called, the effective array holds
\* every entry of rawPermissions that was never passed to remove.
RawContainedUnlessRemoved ==
    \A r \in made :
        ~overridden[r] =>
            \A x \in Range(Raw(r)) \ removedArgs[r] : Includes(Eff(r), x)

RawContainedWitness ==
    \E r \in made :
        /\ ~overridden[r]
        /\ last[1] = "remove"
        /\ last[2] = r
        /\ Includes(Raw(r), last[3])
        /\ ~Includes(Eff(r), last[3])
        /\ \E x \in Range(Raw(r)) : x # last[3] /\ Includes(Eff(r), x)
====
